---- MODULE Spec2Model ----
(***************************************************************************)
(* A model of pygsheets.drive.DriveAPIWrapper (src/pygsheets/drive.py):    *)
(* the request executor, the paginated listers, the permission manager and *)
(* the exporter.  The wrapper is synchronous and single threaded: one      *)
(* operation runs at a time, and every round trip to the provider is one   *)
(* step whose outcome the provider chooses.                                *)
(***************************************************************************)
EXTENDS Integers, Sequences, FiniteSets, TLC

VARIABLES
    team_drive_id,   \* self.team_drive_id ("None" stands for None)
    lastScopeCall,   \* history: the most recent of enable_/disable_team_drive
    pc,              \* "idle" | "exec" | "download" | "returned" | "raised"
    op,              \* the operation the caller invoked last
    args,            \* history: the arguments of that call
    kwargs,          \* the operation's keyword dictionary, as it mutates it
    requests,        \* history: the requests the operation prepared, in order
    i,               \* _execute_request's loop variable
    attempts,        \* history: outcomes of request.execute() in this call
    execStatus,      \* "idle" | "running" | "returned" | "raised"
    execResp,        \* what the last _execute_request call returned
    execErr,         \* what the last _execute_request call raised
    pages,           \* history: the list responses received by the operation
    result,          \* the value the operation accumulates / returns
    error,           \* the exception the operation raised to its caller
    warnings,        \* what the operation passed to logger.warning
    worksheets,      \* the spreadsheet's Worksheet objects: [id, index]
    frame,           \* the running export() frame of a single target
    loopRest,        \* worksheets the multi-sheet loop has still to export
    files,           \* history: file names export opened for writing
    handles,         \* the io.FileIO objects export created: [name, open]
    indexBefore      \* history: worksheets when export was called

driveVars == <<team_drive_id, lastScopeCall, kwargs, requests, i, attempts,
               execStatus, execResp, execErr, pages, result, warnings>>
exportVars == <<worksheets, frame, loopRest, files, handles, indexBefore>>
vars == <<pc, op, args, error, driveVars, exportVars>>

----------------------------------------------------------------------------
(* Bounds of the model *)

MaxPages == 3     \* pages the provider serves for one list call
MaxChunks == 2    \* chunks the provider serves for one download
MaxSheets == 3    \* worksheets of the spreadsheet

----------------------------------------------------------------------------
(* Module constants *)

PERMISSION_ROLES == {"organizer", "owner", "writer", "commenter", "reader"}
PERMISSION_TYPES == {"user", "group", "domain", "anyone"}
retries == 2
_spreadsheet_mime_type_query == "mimeType='application/vnd.google-apps.spreadsheet'"

----------------------------------------------------------------------------
(* Python dictionaries are functions from keys to values *)

EmptyDict == [k \in {} |-> ""]
Put(d, k, v) == [x \in DOMAIN d \cup {k} |-> IF x = k THEN v ELSE d[x]]
Del(d, k) == [x \in DOMAIN d \ {k} |-> d[x]]
Has(d, k) == k \in DOMAIN d
Truthy(x) == x \notin {"None", ""}

----------------------------------------------------------------------------
(* Exceptions.  An exception is its class and what its text contains:      *)
(* timedOut: repr(e) contains 'timed out'; ownerMsg: its text matches      *)
(* 'The owner of a file cannot be removed\.'                               *)

Exc(c, t, o) == [cls |-> c, timedOut |-> t, ownerMsg |-> o]
NoError == Exc("None", FALSE, FALSE)
InvalidArgumentValue == Exc("InvalidArgumentValue", FALSE, FALSE)
CannotRemoveOwnerError == Exc("CannotRemoveOwnerError", FALSE, FALSE)
KeyError == Exc("KeyError", FALSE, FALSE)
TypeError == Exc("TypeError", FALSE, FALSE)
RequestError(e) == Exc("RequestError", TRUE, e.ownerMsg)

(* What request.execute() can raise: an HttpError of the provider or any   *)
(* other exception (socket.timeout, ...).  Only permissions.delete is      *)
(* answered with the owner message.                                        *)
ProviderErrors(api) ==
    [cls : {"HttpError", "Exception"}, timedOut : BOOLEAN,
     ownerMsg : IF api = "permissions.delete" THEN BOOLEAN ELSE {FALSE}]

----------------------------------------------------------------------------
(* Responses of the provider *)

Tokens == {"t1", "t2"}
PageItems == {<<"a">>, <<"b">>}
NoResponse == [none |-> TRUE]

(* A page of files.list / permissions.list: `items' is the 'files' or the  *)
(* 'permissions' entry; "absent" marks a key the response does not carry.  *)
(* The provider serves at most MaxPages pages.                             *)
ListResponses(api, served) ==
    [items : PageItems,
     nextPageToken : IF served + 1 < MaxPages THEN Tokens \cup {"absent"}
                     ELSE {"absent"},
     incompleteSearch : IF api = "files.list" THEN {"absent", "True", "False"}
                        ELSE {"absent"}]

Responses(api, served) ==
    CASE api = "files.get" -> [modifiedTime : {"m1", "m2"}]
      [] api \in {"files.list", "permissions.list"} -> ListResponses(api, served)
      [] api = "permissions.create" -> [id : {"p1"}]
      [] OTHER -> {[body |-> ""]}

Outcomes(api, served) ==
    [kind : {"ok"}, resp : Responses(api, served), err : {NoError}]
    \cup [kind : {"err"}, resp : {NoResponse}, err : ProviderErrors(api)]

----------------------------------------------------------------------------
(* _execute_request: one pass of the loop body for loop index n and the    *)
(* outcome of request.execute()                                            *)

IsTimeout(e) == e.timedOut

RetryAnyError(n, out) ==
    IF out.kind = "ok" THEN "return"
    ELSE IF n = retries - 1 THEN "request_error"
    ELSE "retry"

_execute_request(n, out) ==
    IF out.kind = "ok" THEN "return"
    ELSE IF ~IsTimeout(out.err) THEN "raise"
    ELSE IF n = retries - 1 THEN "request_error"
    ELSE "retry"

Raised(n, out) ==
    IF _execute_request(n, out) = "raise" THEN out.err ELSE RequestError(out.err)

CurrentApi == requests[Len(requests)].api

(* The caller hands a prepared request to _execute_request; `prev' are the  *)
(* requests the operation prepared before it                               *)
Submit(prev, req) ==
    /\ requests' = Append(prev, req)
    /\ i' = 0
    /\ attempts' = <<>>
    /\ execStatus' = "running"
    /\ pc' = "exec"

(* The operation raises before any request is prepared *)
FailLocally(e) ==
    /\ requests' = <<>>
    /\ i' = 0
    /\ attempts' = <<>>
    /\ execStatus' = "idle"
    /\ pc' = "raised"
    /\ error' = e

Request(api, params, body) == [api |-> api, params |-> params, body |-> body]

Callable == pc = "idle"

(* A new call starts with nothing observed *)
NewCall(name, a) ==
    /\ Callable
    /\ op' = name
    /\ args' = a
    /\ execResp' = NoResponse
    /\ execErr' = NoError
    /\ pages' = <<>>
    /\ warnings' = <<>>

(* request.execute() timed out and attempts remain: go round the loop *)
execute_retry ==
    /\ pc = "exec"
    /\ \E out \in Outcomes(CurrentApi, Len(pages)) :
        /\ _execute_request(i, out) = "retry"
        /\ attempts' = Append(attempts, out)
        /\ i' = i + 1
    /\ UNCHANGED <<team_drive_id, lastScopeCall, pc, op, args, kwargs, requests,
                   execStatus, execResp, execErr, pages, result, error,
                   warnings, exportVars>>

(* _execute_request raises, and no operation but delete_permission has a   *)
(* handler: the exception reaches the caller                               *)
execute_raise ==
    /\ pc = "exec"
    /\ op # "delete_permission"
    /\ \E out \in Outcomes(CurrentApi, Len(pages)) :
        /\ _execute_request(i, out) \in {"raise", "request_error"}
        /\ attempts' = Append(attempts, out)
        /\ execStatus' = "raised"
        /\ execErr' = Raised(i, out)
        /\ error' = Raised(i, out)
        /\ pc' = "raised"
    /\ UNCHANGED <<team_drive_id, lastScopeCall, op, args, kwargs, requests, i,
                   execResp, pages, result, warnings, exportVars>>

----------------------------------------------------------------------------
(* The caller takes the outcome of a finished call and goes on: the record *)
(* of that call is dropped, the wrapper and the worksheets stay as they are *)

Resume ==
    /\ pc \in {"returned", "raised"}
    /\ pc' = "idle"
    /\ op' = "none"
    /\ args' = [none |-> TRUE]
    /\ kwargs' = EmptyDict
    /\ requests' = <<>>
    /\ i' = 0
    /\ attempts' = <<>>
    /\ execStatus' = "idle"
    /\ execResp' = NoResponse
    /\ execErr' = NoError
    /\ pages' = <<>>
    /\ result' = <<>>
    /\ error' = NoError
    /\ warnings' = <<>>
    /\ frame' = [none |-> TRUE]
    /\ loopRest' = <<>>
    /\ files' = <<>>
    /\ handles' = <<>>
    /\ indexBefore' = <<>>
    /\ UNCHANGED <<team_drive_id, lastScopeCall, worksheets>>

----------------------------------------------------------------------------
(* enable_team_drive / disable_team_drive: lines 55-61 *)

TeamDriveIds == {"td1", "td2"}

enable_team_drive ==
    /\ Callable
    /\ \E id \in TeamDriveIds : team_drive_id' = id
    /\ lastScopeCall' = "enable"
    /\ UNCHANGED <<pc, op, args, error, kwargs, requests, i, attempts,
                   execStatus, execResp, execErr, pages, result, warnings,
                   exportVars>>

disable_team_drive ==
    /\ Callable
    /\ team_drive_id' = "None"
    /\ lastScopeCall' = "disable"
    /\ UNCHANGED <<pc, op, args, error, kwargs, requests, i, attempts,
                   execStatus, execResp, execErr, pages, result, warnings,
                   exportVars>>

----------------------------------------------------------------------------
(* get_update_time *)

Call_get_update_time ==
    /\ NewCall("get_update_time", [file_id |-> "f1"])
    /\ Submit(<<>>, Request("files.get",
                            [fileId |-> "f1", fields |-> "modifiedTime"],
                            EmptyDict))
    /\ kwargs' = EmptyDict
    /\ result' = <<>>
    /\ error' = NoError
    /\ UNCHANGED <<team_drive_id, lastScopeCall, exportVars>>

Return_get_update_time ==
    /\ pc = "exec"
    /\ op = "get_update_time"
    /\ \E out \in Outcomes(CurrentApi, Len(pages)) :
        /\ _execute_request(i, out) = "return"
        /\ attempts' = Append(attempts, out)
        /\ execResp' = out.resp
        /\ result' = out.resp.modifiedTime
    /\ execStatus' = "returned"
    /\ pc' = "returned"
    /\ UNCHANGED <<team_drive_id, lastScopeCall, op, args, kwargs, requests, i,
                   execErr, pages, error, warnings, exportVars>>

----------------------------------------------------------------------------
(* list and spreadsheet_metadata *)

(* line 82: the follow-up call carries the token of the response in hand *)
list_next_kwargs(kw, response) == Put(kw, "pageToken", response.nextPageToken)

(* lines 86-88: the warning reads kwargs['corpora'] *)
list_incomplete(kw, response) ==
    IF response.incompleteSearch = "True"
    THEN IF Has(kw, "corpora") THEN "warn" ELSE "KeyError"
    ELSE "quiet"

(* lines 100-113: the parameters spreadsheet_metadata hands to list *)
spreadsheet_metadata(query, tdid) ==
    LET q == IF query # "" THEN <<query, " and ", _spreadsheet_mime_type_query>>
             ELSE <<_spreadsheet_mime_type_query>>
    IN IF Truthy(tdid)
       THEN [corpora |-> "teamDrive", teamDriveId |-> tdid,
             supportsTeamDrives |-> "True", includeTeamDriveItems |-> "True",
             fields |-> "files(id, name, parents)", q |-> q]
       ELSE [fields |-> "files(id, name, parents)", q |-> q]

ListKwargs == {EmptyDict, [corpora |-> "user"], [pageToken |-> "t0"]}

StartList(name, a, kw) ==
    /\ NewCall(name, a)
    /\ kwargs' = kw
    /\ result' = <<>>
    /\ error' = NoError
    /\ Submit(<<>>, Request("files.list", kw, EmptyDict))
    /\ UNCHANGED <<team_drive_id, lastScopeCall, exportVars>>

Call_list ==
    /\ Callable
    /\ \E kw \in ListKwargs : StartList("list", [kwargs |-> kw], kw)

Call_spreadsheet_metadata ==
    /\ Callable
    /\ \E query \in {"", "name contains 'x'"} :
        StartList("spreadsheet_metadata", [query |-> query],
                  spreadsheet_metadata(query, team_drive_id))

(* One response of files.list arrives: lines 79-89 *)
list_page ==
    /\ pc = "exec"
    /\ op \in {"list", "spreadsheet_metadata"}
    /\ \E out \in Outcomes(CurrentApi, Len(pages)) :
        LET response == out.resp IN
        /\ _execute_request(i, out) = "return"
        /\ execResp' = response
        /\ result' = result \o response.items
        /\ pages' = Append(pages, response)
        /\ IF response.nextPageToken # "absent"
           THEN LET kw == list_next_kwargs(kwargs, response) IN
                /\ kwargs' = kw
                /\ Submit(requests, Request("files.list", kw, EmptyDict))
                /\ UNCHANGED <<warnings, error>>
           ELSE /\ attempts' = Append(attempts, out)
                /\ execStatus' = "returned"
                /\ UNCHANGED <<kwargs, requests, i>>
                /\ CASE list_incomplete(kwargs, response) = "warn" ->
                          /\ warnings' = Append(warnings, kwargs["corpora"])
                          /\ pc' = "returned"
                          /\ error' = error
                     [] list_incomplete(kwargs, response) = "KeyError" ->
                          /\ warnings' = warnings
                          /\ pc' = "raised"
                          /\ error' = KeyError
                     [] OTHER ->
                          /\ warnings' = warnings
                          /\ pc' = "returned"
                          /\ error' = error
    /\ UNCHANGED <<team_drive_id, lastScopeCall, op, args, execErr, exportVars>>

----------------------------------------------------------------------------
(* Permissions *)

(* lines 228-229, 276-277, 305-306: the implicit shared-drive flag *)
InjectAlways(kw, tdid) == Put(kw, "supportsTeamDrives", "True")

supportsTeamDrives(kw, tdid) ==
    IF ~Has(kw, "supportsTeamDrives") /\ Truthy(tdid)
    THEN Put(kw, "supportsTeamDrives", "True")
    ELSE kw

(* E-mail addresses are sequences of characters.  _EMAIL_PATTERN is        *)
(*   "?([-a-zA-Z0-9.`?{}]+@[-a-zA-Z0-9.]+\.\w+)"?                          *)
(* and re.match anchors it at the start of the string only.  The classes   *)
(* hold the characters the addresses below are made of.                    *)
LocalClass == {"a", "b", "c", "0", "-", ".", "?", "{", "}"}
DomainClass == {"a", "b", "c", "0", "-", "."}
WordClass == {"a", "b", "c", "0", "_"}

(* the group matches a prefix of s that starts at position p *)
GroupMatches(s, p) ==
    \E at \in (p + 1)..Len(s) :
        /\ s[at] = "@"
        /\ \A j \in p..(at - 1) : s[j] \in LocalClass
        /\ \E dot \in (at + 2)..(Len(s) - 1) :
            /\ s[dot] = "."
            /\ \A j \in (at + 1)..(dot - 1) : s[j] \in DomainClass
            /\ s[dot + 1] \in WordClass

_EMAIL_PATTERN(s) ==
    \/ GroupMatches(s, 1)
    \/ Len(s) >= 1 /\ s[1] = "\"" /\ GroupMatches(s, 2)

Emails ==
    { <<"a", "@", "b", ".", "c">>,              \* a@b.c
      <<"\"", "a", "@", "b", ".", "c", "\"">>,  \* "a@b.c"
      <<"a", "@", "b", ".", "c", " ", "x">>,    \* a@b.c x
      <<"a", "b", ".", "c">>,                   \* ab.c
      <<"a", "@", "b">>,                        \* a@b
      <<"@", "b", ".", "c">>,                   \* @b.c
      <<"a", "@", ".", "c">>,                   \* a@.c
      <<"a", " ", "@", "b", ".", "c">> }        \* a @b.c

(* lines 244-261: a key the body consumes leaves the keyword dictionary *)
Consume(st, key) ==
    IF Has(st.kwargs, key)
    THEN [st EXCEPT !.body = Put(st.body, key, st.kwargs[key]),
                    !.kwargs = Del(st.kwargs, key)]
    ELSE st

SkipEmailCheck(s) == TRUE

EmailAccepted(s) == _EMAIL_PATTERN(s)

(* lines 228-263, up to the request: what create_permission raises, or the *)
(* body and the keyword options of the request it prepares                 *)
create_permission(role, type, kwargs0, tdid) ==
    LET kw == supportsTeamDrives(kwargs0, tdid)
        invalid == [raises |-> TRUE, body |-> EmptyDict, kwargs |-> kw]
        st0 == [raises |-> FALSE, kwargs |-> kw,
                body |-> [kind |-> "drive#permission", type |-> type,
                          role |-> role]]
        st1 == IF Has(kw, "emailAddress") THEN Consume(st0, "emailAddress")
               ELSE Consume(st0, "domain")
    IN  IF Has(kw, "emailAddress") /\ Has(kw, "domain") THEN invalid
        ELSE IF role \notin PERMISSION_ROLES THEN invalid
        ELSE IF type \notin PERMISSION_TYPES THEN invalid
        ELSE IF Has(kw, "emailAddress") /\ ~EmailAccepted(kw["emailAddress"])
             THEN invalid
        ELSE Consume(Consume(st1, "allowFileDiscovery"), "expirationTime")

(* keyword dictionaries a caller passes *)
Optional(key, values) == {EmptyDict} \cup {Put(EmptyDict, key, v) : v \in values}

ScopeKwargs == Optional("supportsTeamDrives", {"True", "False"})

CreateKwargs ==
    { a @@ b @@ c @@ d :
        a \in Optional("emailAddress", Emails),
        b \in Optional("domain", {"example.com"}),
        c \in ScopeKwargs,
        d \in Optional("allowFileDiscovery", {"True"})
              \cup Optional("expirationTime", {"2030-01-01T00:00:00Z"})
              \cup Optional("sendNotificationEmail", {"False"}) }

Call_create_permission ==
    /\ Callable
    /\ \E role \in PERMISSION_ROLES \cup {"admin"},
       type \in PERMISSION_TYPES \cup {"everyone"},
       kw \in CreateKwargs :
        LET r == create_permission(role, type, kw, team_drive_id) IN
        /\ NewCall("create_permission",
                   [file_id |-> "f1", role |-> role, type |-> type, kwargs |-> kw])
        /\ kwargs' = r.kwargs
        /\ result' = <<>>
        /\ IF r.raises
           THEN FailLocally(InvalidArgumentValue)
           ELSE /\ Submit(<<>>, Request("permissions.create",
                                        Put(r.kwargs, "fileId", "f1"), r.body))
                /\ error' = NoError
        /\ UNCHANGED <<team_drive_id, lastScopeCall, exportVars>>

Return_create_permission ==
    /\ pc = "exec"
    /\ op = "create_permission"
    /\ \E out \in Outcomes(CurrentApi, Len(pages)) :
        /\ _execute_request(i, out) = "return"
        /\ attempts' = Append(attempts, out)
        /\ execResp' = out.resp
        /\ result' = out.resp
    /\ execStatus' = "returned"
    /\ pc' = "returned"
    /\ UNCHANGED <<team_drive_id, lastScopeCall, op, args, kwargs, requests, i,
                   execErr, pages, error, warnings, exportVars>>

(* list_permissions: lines 276-290 *)
ListPermissionsKwargs ==
    { a @@ b : a \in ScopeKwargs, b \in Optional("fields", {"permissions(id)"}) }

list_permissions_kwargs(kwargs0, tdid) ==
    LET kw == supportsTeamDrives(kwargs0, tdid)
    IN IF ~Has(kw, "fields") THEN Put(kw, "fields", "*") ELSE kw

list_permissions_next(kw, response) ==
    Put(Put(kw, "fileId", "f1"), "pageToken", response.nextPageToken)

Call_list_permissions ==
    /\ Callable
    /\ \E kw0 \in ListPermissionsKwargs :
        LET kw == list_permissions_kwargs(kw0, team_drive_id) IN
        /\ NewCall("list_permissions", [file_id |-> "f1", kwargs |-> kw0])
        /\ kwargs' = kw
        /\ result' = <<>>
        /\ error' = NoError
        /\ Submit(<<>>, Request("permissions.list", Put(kw, "fileId", "f1"),
                                EmptyDict))
        /\ UNCHANGED <<team_drive_id, lastScopeCall, exportVars>>

list_permissions_page ==
    /\ pc = "exec"
    /\ op = "list_permissions"
    /\ \E out \in Outcomes(CurrentApi, Len(pages)) :
        LET response == out.resp IN
        /\ _execute_request(i, out) = "return"
        /\ execResp' = response
        /\ result' = result \o response.items
        /\ pages' = Append(pages, response)
        /\ IF response.nextPageToken # "absent"
           THEN Submit(requests,
                       Request("permissions.list",
                               list_permissions_next(kwargs, response), EmptyDict))
           ELSE /\ attempts' = Append(attempts, out)
                /\ execStatus' = "returned"
                /\ pc' = "returned"
                /\ UNCHANGED <<requests, i>>
    /\ UNCHANGED <<team_drive_id, lastScopeCall, op, args, kwargs, execErr,
                   error, warnings, exportVars>>

(* delete_permission: lines 305-315 *)
CatchEverything(e) == IF e.ownerMsg THEN CannotRemoveOwnerError ELSE e

delete_permission_except(e) ==
    IF e.cls = "HttpError" /\ e.ownerMsg THEN CannotRemoveOwnerError ELSE e

Call_delete_permission ==
    /\ Callable
    /\ \E kw0 \in ScopeKwargs :
        LET kw == supportsTeamDrives(kw0, team_drive_id) IN
        /\ NewCall("delete_permission",
                   [file_id |-> "f1", permission_id |-> "p1", kwargs |-> kw0])
        /\ kwargs' = kw
        /\ result' = <<>>
        /\ error' = NoError
        /\ Submit(<<>>, Request("permissions.delete",
                                Put(Put(kw, "fileId", "f1"), "permissionId", "p1"),
                                EmptyDict))
        /\ UNCHANGED <<team_drive_id, lastScopeCall, exportVars>>

Return_delete_permission ==
    /\ pc = "exec"
    /\ op = "delete_permission"
    /\ \E out \in Outcomes(CurrentApi, Len(pages)) :
        /\ _execute_request(i, out) = "return"
        /\ attempts' = Append(attempts, out)
        /\ execResp' = out.resp
    /\ execStatus' = "returned"
    /\ pc' = "returned"
    /\ UNCHANGED <<team_drive_id, lastScopeCall, op, args, kwargs, requests, i,
                   execErr, pages, result, error, warnings, exportVars>>

Raise_delete_permission ==
    /\ pc = "exec"
    /\ op = "delete_permission"
    /\ \E out \in Outcomes(CurrentApi, Len(pages)) :
        /\ _execute_request(i, out) \in {"raise", "request_error"}
        /\ attempts' = Append(attempts, out)
        /\ execErr' = Raised(i, out)
        /\ error' = delete_permission_except(Raised(i, out))
    /\ execStatus' = "raised"
    /\ pc' = "raised"
    /\ UNCHANGED <<team_drive_id, lastScopeCall, op, args, kwargs, requests, i,
                   execResp, pages, result, warnings, exportVars>>

----------------------------------------------------------------------------
(* export: lines 166-193 *)

(* ExportType members are 'mime type:file extension' pairs *)
ExportTypes ==
    { [name |-> "CSV", mime |-> "text/csv", ext |-> ".csv"],
      [name |-> "TSV", mime |-> "text/tab-separated-values", ext |-> ".tsv"],
      [name |-> "PDF", mime |-> "application/pdf", ext |-> ".pdf"] }

(* Strings that are concatenated are sequences of their pieces *)
None == [none |-> TRUE, v |-> <<>>]
Some(x) == [none |-> FALSE, v |-> x]
str(n) == <<"0", "1", "2", "3", "4", "5", "6", "7", "8", "9">>[n + 1]

SpreadsheetId == "ss1"
WorksheetIds == <<"gid1", "gid2", "gid3", "gid4", "gid5">>
Filenames == {None, Some(<<"out">>)}

(* line 183 *)
file_name(sheet_id, filename, file_extension) ==
    IF filename.none THEN <<sheet_id, file_extension>>
    ELSE filename.v \o <<file_extension>>

(* line 173: filename + str(worksheet.index) *)
suffixed(filename, index) == Some(filename.v \o <<str(index)>>)

(* lines 192-193 *)
NoRestore(ws, fr) == ws

restore_index(ws, fr) ==
    IF ~fr.tmp.none THEN [ws EXCEPT ![fr.sheet].index = fr.tmp.v] ELSE ws

(* lines 176-185 for one target (0: the spreadsheet, k: its k-th worksheet) *)
(* starting from worksheets ws, requests rq, files fs and handles hs:      *)
(* the index is forced to 0, the request prepared, the file opened         *)
Open(ws, rq, fs, hs, target, fmt, filename) ==
    LET isWorksheet == target > 0
        ws0 == IF isWorksheet THEN [ws EXCEPT ![target].index = 0] ELSE ws
        name == file_name(IF isWorksheet THEN ws[target].id ELSE SpreadsheetId,
                          filename, fmt.ext)
    IN  /\ worksheets' = ws0
        /\ frame' = [none |-> FALSE, sheet |-> target,
                     tmp |-> IF isWorksheet THEN Some(ws[target].index) ELSE None,
                     file_name |-> name, chunks |-> 0]
        /\ requests' = Append(rq, [api |-> "files.export",
                                   params |-> [fileId |-> SpreadsheetId,
                                               mimeType |-> fmt.mime],
                                   body |-> EmptyDict,
                                   worksheets |-> ws0])
        /\ files' = Append(fs, name)
        /\ handles' = Append(hs, [name |-> name, open |-> TRUE])
        /\ pc' = "download"

Call_export ==
    /\ Callable
    /\ \E sheet \in 0..Len(worksheets), fmt \in ExportTypes, filename \in Filenames :
        /\ op' = "export"
        /\ args' = [sheet |-> sheet, file_format |-> fmt, filename |-> filename]
        /\ indexBefore' = worksheets
        /\ IF sheet = 0 /\ fmt.name \in {"CSV", "TSV"} /\ Len(worksheets) > 1
           THEN IF filename.none
                THEN /\ pc' = "raised"
                     /\ error' = TypeError
                     /\ UNCHANGED <<worksheets, frame, requests, files, handles,
                                    loopRest>>
                ELSE /\ Open(worksheets, <<>>, <<>>, <<>>, 1, fmt,
                             suffixed(filename, worksheets[1].index))
                     /\ loopRest' = [k \in 1..(Len(worksheets) - 1) |-> k + 1]
                     /\ error' = NoError
           ELSE /\ Open(worksheets, <<>>, <<>>, <<>>, sheet, fmt, filename)
                /\ loopRest' = <<>>
                /\ error' = NoError
    /\ UNCHANGED <<team_drive_id, lastScopeCall, kwargs, i, attempts, execStatus,
                   execResp, execErr, pages, result, warnings>>

(* downloader.next_chunk() returns with done False *)
next_chunk_more ==
    /\ pc = "download"
    /\ frame.chunks + 1 < MaxChunks
    /\ frame' = [frame EXCEPT !.chunks = frame.chunks + 1]
    /\ UNCHANGED <<pc, op, args, error, driveVars, worksheets, loopRest, files,
                   handles, indexBefore>>

(* downloader.next_chunk() raises: nothing catches it.  The worksheet keeps *)
(* index 0 and the frame, kept by the traceback, keeps fh open.            *)
next_chunk_raises ==
    /\ pc = "download"
    /\ \E e \in ProviderErrors("files.export") : error' = e
    /\ pc' = "raised"
    /\ UNCHANGED <<op, args, driveVars, exportVars>>

(* downloader.next_chunk() returns with done True: lines 190-193, then the *)
(* frame exits.  export never closes fh: whether the handle is closed when *)
(* its last reference goes is up to the runtime (reference counting closes *)
(* it, a tracing collector need not).  A multi-sheet export then goes on   *)
(* with its next worksheet.                                                *)
next_chunk_done ==
    /\ pc = "download"
    /\ \E finalized \in BOOLEAN :
        LET ws == restore_index(worksheets, frame)
            hs == [handles EXCEPT ![Len(handles)].open = ~finalized]
        IN  IF loopRest = <<>>
            THEN /\ worksheets' = ws
                 /\ handles' = hs
                 /\ frame' = [frame EXCEPT !.chunks = frame.chunks + 1]
                 /\ pc' = "returned"
                 /\ UNCHANGED <<requests, files, loopRest>>
            ELSE /\ Open(ws, requests, files, hs, Head(loopRest), args.file_format,
                         suffixed(args.filename, ws[Head(loopRest)].index))
                 /\ loopRest' = Tail(loopRest)
    /\ UNCHANGED <<op, args, error, team_drive_id, lastScopeCall, kwargs, i,
                   attempts, execStatus, execResp, execErr, pages, result,
                   warnings, indexBefore>>

----------------------------------------------------------------------------
(* The wrapper's remote operations *)

ExportIdle ==
    /\ worksheets = <<[id |-> WorksheetIds[1], index |-> 0]>>
    /\ frame = [none |-> TRUE]
    /\ loopRest = <<>>
    /\ files = <<>>
    /\ handles = <<>>
    /\ indexBefore = <<>>

DriveIdle ==
    /\ team_drive_id = "None"
    /\ lastScopeCall = "none"
    /\ kwargs = EmptyDict
    /\ requests = <<>>
    /\ i = 0
    /\ attempts = <<>>
    /\ execStatus = "idle"
    /\ execResp = NoResponse
    /\ execErr = NoError
    /\ pages = <<>>
    /\ result = <<>>
    /\ warnings = <<>>

CallerIdle ==
    /\ pc = "idle"
    /\ op = "none"
    /\ args = [none |-> TRUE]
    /\ error = NoError

Init == CallerIdle /\ DriveIdle /\ ExportIdle

Next ==
    \/ enable_team_drive
    \/ disable_team_drive
    \/ Call_get_update_time
    \/ Return_get_update_time
    \/ Call_list
    \/ Call_spreadsheet_metadata
    \/ list_page
    \/ Call_create_permission
    \/ Return_create_permission
    \/ Call_list_permissions
    \/ list_permissions_page
    \/ Call_delete_permission
    \/ Return_delete_permission
    \/ Raise_delete_permission
    \/ execute_retry
    \/ execute_raise
    \/ Resume

Spec == Init /\ [][Next]_vars

(* The exporter, for a spreadsheet of one to MaxSheets worksheets *)
InitExport ==
    /\ CallerIdle
    /\ DriveIdle
    /\ \E n \in 1..MaxSheets :
        worksheets = [k \in 1..n |-> [id |-> WorksheetIds[k], index |-> k - 1]]
    /\ frame = [none |-> TRUE]
    /\ loopRest = <<>>
    /\ files = <<>>
    /\ handles = <<>>
    /\ indexBefore = <<>>

NextExport ==
    \/ Call_export
    \/ next_chunk_more
    \/ next_chunk_raises
    \/ next_chunk_done
    \/ Resume

SpecExport == InitExport /\ [][NextExport]_vars

----------------------------------------------------------------------------
(* Properties *)

RECURSIVE Concat(_)
Concat(ps) == IF ps = <<>> THEN <<>> ELSE Head(ps).items \o Concat(Tail(ps))

Last(q) == q[Len(q)]
TimedOutFailure(out) == out.kind = "err" /\ out.err.timedOut
Finished == pc \in {"returned", "raised"}

AllPagesServed == pages # <<>> /\ Last(pages).nextPageToken = "absent"

Paginated ==
    /\ result = Concat(pages)
    /\ Len(requests) = Len(pages)
    /\ \A k \in 2..Len(requests) :
        /\ Has(requests[k].params, "pageToken")
        /\ requests[k].params.pageToken = pages[k - 1].nextPageToken
    /\ \A k \in 1..(Len(pages) - 1) : pages[k].nextPageToken # "absent"

(* C2: once the provider has served a sequence of pages of which only the  *)
(* last carries no nextPageToken, list() and list_permissions() return the *)
(* concatenation of the pages' items in page order, after one request per  *)
(* page, each follow-up request carrying the preceding response's token.   *)
C2_PaginationReturnsAll ==
    (op \in {"list", "spreadsheet_metadata", "list_permissions"} /\ AllPagesServed)
        => (pc = "returned" /\ Paginated)

(* What does hold of the pagination: whenever list() or list_permissions() *)
(* returns, and while it runs, the requests and the result are as C2 says. *)
PaginationWhenReturned ==
    /\ (op \in {"list", "spreadsheet_metadata", "list_permissions"}
            /\ pc = "returned") => (AllPagesServed /\ Paginated)
    /\ (op \in {"list", "spreadsheet_metadata", "list_permissions"}
            /\ pc = "exec") =>
        /\ result = Concat(pages)
        /\ Len(requests) = Len(pages) + 1

EmailOf(a) == a.kwargs["emailAddress"]
NoAtSign(s) == \A k \in 1..Len(s) : s[k] # "@"

Rejected(a) ==
    \/ a.role \notin PERMISSION_ROLES
    \/ a.type \notin PERMISSION_TYPES
    \/ Has(a.kwargs, "emailAddress") /\ Has(a.kwargs, "domain")
    \/ Has(a.kwargs, "emailAddress") /\ ~_EMAIL_PATTERN(EmailOf(a))
    \/ Has(a.kwargs, "emailAddress") /\ NoAtSign(EmailOf(a))

(* C3: create_permission raises InvalidArgumentValue without preparing a   *)
(* request when the role or the type is outside its set, when emailAddress *)
(* and domain are both given, or when the emailAddress fails the pattern   *)
(* (any address without '@' does); otherwise, with an emailAddress, it     *)
(* prepares exactly one request whose body carries that emailAddress and   *)
(* no domain, and whose keyword options do not carry emailAddress.         *)
C3_CreatePermissionValidation ==
    op = "create_permission" =>
        /\ Rejected(args) =>
            /\ pc = "raised"
            /\ error = InvalidArgumentValue
            /\ requests = <<>>
        /\ (~Rejected(args) /\ Has(args.kwargs, "emailAddress")) =>
            /\ Len(requests) = 1
            /\ requests[1].api = "permissions.create"
            /\ Has(requests[1].body, "emailAddress")
            /\ requests[1].body["emailAddress"] = EmailOf(args)
            /\ ~Has(requests[1].body, "domain")
            /\ ~Has(requests[1].params, "emailAddress")

(* a permission for a well-formed address was created *)
C3_Witness ==
    /\ op = "create_permission"
    /\ pc = "returned"
    /\ Has(args.kwargs, "emailAddress")
    /\ Len(requests) = 1

(* C4: delete_permission raises CannotRemoveOwnerError when the call fails *)
(* with an HttpError whose text matches the owner message; every other     *)
(* failure (another HttpError, another exception, the RequestError after   *)
(* the timeouts are exhausted) reaches the caller as _execute_request      *)
(* raised it; a successful call raises nothing.                            *)
C4_DeletePermissionErrors ==
    op = "delete_permission" =>
        /\ pc = "returned" => (error = NoError /\ Last(attempts).kind = "ok")
        /\ pc = "raised" =>
            LET e == Last(attempts).err IN
            IF e.timedOut
            THEN error = RequestError(e) /\ Len(attempts) = retries
            ELSE IF e.cls = "HttpError" /\ e.ownerMsg
                 THEN error = CannotRemoveOwnerError
                 ELSE error = e

(* the provider refused to remove the owner *)
C4_Witness ==
    /\ op = "delete_permission"
    /\ pc = "raised"
    /\ error = CannotRemoveOwnerError

(* C5: every body create_permission sends for a grantee of type user or    *)
(* group carries exactly one of emailAddress and domain.                   *)
C5_ExactlyOneGrantee ==
    \A k \in 1..Len(requests) :
        (requests[k].api = "permissions.create"
            /\ requests[k].body["type"] \in {"user", "group"})
        => (Has(requests[k].body, "emailAddress")
                # Has(requests[k].body, "domain"))

MultiSheetExport ==
    /\ op = "export"
    /\ args.sheet = 0
    /\ args.file_format.name \in {"CSV", "TSV"}
    /\ Len(worksheets) > 1

DownloadFailed == error.cls \in {"HttpError", "Exception"}

BaseName == IF args.filename.none THEN <<SpreadsheetId>> ELSE args.filename.v

(* C6: a CSV or TSV export of a spreadsheet of several worksheets, with    *)
(* the filename given or left at its default, ends (unless a download      *)
(* fails) having issued one export request per worksheet and written one   *)
(* file per worksheet, named <base><worksheet index><extension>.           *)
C6_OneFilePerWorksheet ==
    (MultiSheetExport /\ Finished /\ ~DownloadFailed) =>
        /\ pc = "returned"
        /\ Len(requests) = Len(worksheets)
        /\ Len(files) = Len(worksheets)
        /\ \A k \in 1..Len(files) :
            files[k] = BaseName \o <<str(indexBefore[k].index),
                                     args.file_format.ext>>
        /\ Cardinality({files[k] : k \in 1..Len(files)}) = Len(worksheets)

SingleSheetBase ==
    IF args.filename.none THEN <<indexBefore[args.sheet].id>>
    ELSE args.filename.v

C8_IncompleteSearchIsSoft ==
    (op \in {"list", "spreadsheet_metadata"} /\ AllPagesServed
        /\ Last(pages).incompleteSearch = "True")
        => (pc = "returned" /\ warnings # <<>> /\ result = Concat(pages))

ScopeKeys == {"corpora", "teamDriveId", "includeTeamDriveItems",
              "supportsTeamDrives"}

C10_HandlesClosed ==
    (op = "export" /\ Finished) =>
        \A k \in 1..Len(handles) : ~handles[k].open

====
